---- MODULE Spec2Model ----
(***************************************************************************)
(* A model of build_genome_map.py: the two line-oriented parsers           *)
(* (load_chromosomes, load_cytobands), the chromosome sort key, and the    *)
(* alias loop of build_genome_object with its per-assembly cache.          *)
(*                                                                         *)
(* Python strings are sequences of one-character strings, so that          *)
(* splitlines, strip, split, startswith, slicing, isdigit and int are      *)
(* computed and not assumed.  Python lists are objects of a heap, so that  *)
(* list(...) makes a new object and sharing is observable.                 *)
(***************************************************************************)
EXTENDS Integers, Sequences, FiniteSets

VARIABLES
    hashSeed,        \* the process's string-hash seed: fixes the layout of the set CANONICAL_CHROMS
    ASSEMBLY_ALIAS,  \* the alias configuration, in declared order: <<[label, ucsc], ...>>
    remote,          \* what the UCSC server answers, per assembly: [sizes, cyto]
    pc,              \* position in build_genome_object / the caller
    pos,             \* the loop's position in ASSEMBLY_ALIAS.items()
    chromosomes,     \* local of build_genome_object between lines 126 and 127 (a list reference)
    cache_by_ucsc,   \* ucsc -> [chromosomes, cytobands] (list references)
    result,          \* the dict under construction, in insertion order
    heap,            \* the list objects: heap[ref] is the content of list ref
    returned,        \* what build_genome_object handed to its caller
    written,         \* genome_metadata.json as written by the main block
    error,           \* the exception that ended the run, or NoError
    fetchLog,        \* the requests.get calls of this run, in order
    run,             \* which of the two compared runs of the program this is
    prev,            \* the outcome of the previous run
    nMut,            \* number of caller mutations applied to the returned catalog
    kind,            \* parser harness: which pure function is applied
    inputLines,      \* parser harness: the lines of the input file
    text,            \* parser harness: the input file as one string
    labels,          \* parser harness: the labels handed to natural_chrom_key
    out              \* parser harness: the function's result

vars == <<hashSeed, ASSEMBLY_ALIAS, remote, pc, pos, chromosomes, cache_by_ucsc, result,
          heap, returned, written, error, fetchLog, run, prev, nMut,
          kind, inputLines, text, labels, out>>

buildVars == <<ASSEMBLY_ALIAS, remote, pc, pos, chromosomes, cache_by_ucsc, result,
               heap, returned, written, error, fetchLog, run, prev, nMut>>

parseVars == <<kind, inputLines, text, labels, out>>

----------------------------------------------------------------------------
(* Bounds of the model. *)

\* longest alias configuration
MaxAliases == 4
\* most lines in an enumerated input file of the parser harness
MaxLines == 3
\* most caller mutations of a returned catalog
MaxMutations == 1

----------------------------------------------------------------------------
(* Python str operations, on sequences of characters. *)

TAB == "\t"
NL == "\n"
Digits == {"0", "1", "2", "3", "4", "5", "6", "7", "8", "9"}
\* the characters str.strip() and int() treat as whitespace (those of the model's alphabet)
Whitespace == {" ", "\t", "\n"}

DigitVal(c) ==
    CASE c = "0" -> 0 [] c = "1" -> 1 [] c = "2" -> 2 [] c = "3" -> 3 [] c = "4" -> 4
      [] c = "5" -> 5 [] c = "6" -> 6 [] c = "7" -> 7 [] c = "8" -> 8 [] c = "9" -> 9

DigitChar(d) ==
    CASE d = 0 -> "0" [] d = 1 -> "1" [] d = 2 -> "2" [] d = 3 -> "3" [] d = 4 -> "4"
      [] d = 5 -> "5" [] d = 6 -> "6" [] d = 7 -> "7" [] d = 8 -> "8" [] d = 9 -> "9"

\* f"{i}" for a non-negative integer
RECURSIVE str(_)
str(n) == IF n < 10 THEN <<DigitChar(n)>> ELSE str(n \div 10) \o <<DigitChar(n % 10)>>

\* s.startswith(p)
startswith(s, p) == Len(s) >= Len(p) /\ SubSeq(s, 1, Len(p)) = p

\* s[k:] (k is Python's zero-based index)
slice_from(s, k) == SubSeq(s, k + 1, Len(s))

\* s.isdigit()
isdigit(s) == Len(s) > 0 /\ \A k \in 1..Len(s) : s[k] \in Digits

\* s.strip()
RECURSIVE lstrip(_)
lstrip(s) == IF s # <<>> /\ Head(s) \in Whitespace THEN lstrip(Tail(s)) ELSE s
RECURSIVE rstrip(_)
rstrip(s) == IF s # <<>> /\ s[Len(s)] \in Whitespace THEN rstrip(SubSeq(s, 1, Len(s) - 1)) ELSE s
strip(s) == rstrip(lstrip(s))

\* s.split(sep) for a one-character sep: always at least one field
RECURSIVE split_from(_, _, _, _)
split_from(s, sep, k, cur) ==
    IF k > Len(s) THEN <<cur>>
    ELSE IF s[k] = sep THEN <<cur>> \o split_from(s, sep, k + 1, <<>>)
    ELSE split_from(s, sep, k + 1, Append(cur, s[k]))
split(s, sep) == split_from(s, sep, 1, <<>>)

\* s.splitlines(): the pieces between line breaks; a final line break opens no empty line
RECURSIVE splitlines_from(_, _, _)
splitlines_from(s, k, cur) ==
    IF k > Len(s) THEN (IF cur = <<>> THEN <<>> ELSE <<cur>>)
    ELSE IF s[k] = NL THEN <<cur>> \o splitlines_from(s, k + 1, <<>>)
    ELSE splitlines_from(s, k + 1, Append(cur, s[k]))
splitlines(s) == splitlines_from(s, 1, <<>>)

\* the value of a non-empty string of digits
RECURSIVE digits_value(_)
digits_value(s) ==
    IF Len(s) = 1 THEN DigitVal(s[1])
    ELSE 10 * digits_value(SubSeq(s, 1, Len(s) - 1)) + DigitVal(s[Len(s)])

\* int(s): surrounding whitespace and one sign are accepted; anything else raises ValueError
int(s) ==
    LET t == strip(s)
        signed == t # <<>> /\ t[1] \in {"+", "-"}
        body == IF signed THEN Tail(t) ELSE t
    IN  IF isdigit(body)
        THEN [ok |-> TRUE, val |-> IF signed /\ t[1] = "-" THEN 0 - digits_value(body)
                                                          ELSE digits_value(body)]
        ELSE [ok |-> FALSE, val |-> 0]

----------------------------------------------------------------------------
(* Module-level values. *)

chr == <<"c", "h", "r">>

\* line 18, as the members in the order the set comprehension and the union list them
CANONICAL_CHROMS_members ==
    [k \in 1..22 |-> chr \o str(k)] \o <<chr \o <<"X">>, chr \o <<"Y">>, chr \o <<"M">>>>

\* The hash table behind the set: the order of its slots depends on the process's
\* hash seed (string hashing is randomized per process).
HashSeeds == {0, 1}
RECURSIVE reversed(_)
reversed(s) == IF s = <<>> THEN <<>> ELSE Append(reversed(Tail(s)), Head(s))
CANONICAL_CHROMS_table == IF hashSeed = 0 THEN CANONICAL_CHROMS_members
                                          ELSE reversed(CANONICAL_CHROMS_members)

\* chrom in CANONICAL_CHROMS: a lookup in the table
in_CANONICAL_CHROMS(chrom) ==
    \E k \in 1..Len(CANONICAL_CHROMS_table) : CANONICAL_CHROMS_table[k] = chrom

\* The exceptions a run can end with.
NoError == "none"
ValueError == "ValueError"              \* tuple unpacking of split(), int(): a format error
RequestException == "RequestException"  \* requests.get / raise_for_status: a transport error
BadGzipFile == "BadGzipFile"            \* gzip.GzipFile.read / decode: a decode error

----------------------------------------------------------------------------
(* natural_chrom_key and the sort that uses it. *)

\* order.get(chrom_stripped, 100) of line 40-41
order_get(chrom_stripped) ==
    CASE chrom_stripped = <<"X">> -> 23
      [] chrom_stripped = <<"Y">> -> 24
      [] chrom_stripped = <<"M">> -> 25
      [] chrom_stripped = <<"M", "T">> -> 25
      [] OTHER -> 100

\* a variant that orders numeric labels as text, by their first character
natural_chrom_key_lexical(chrom_stripped) ==
    IF isdigit(chrom_stripped)
    THEN <<0, DigitVal(chrom_stripped[1])>>
    ELSE <<1, order_get(chrom_stripped)>>

natural_chrom_key(chrom_stripped) ==
    IF isdigit(chrom_stripped)
    THEN <<0, int(chrom_stripped).val>>
    ELSE <<1, order_get(chrom_stripped)>>

\* Python's order of two-element tuples
tuple_lt(a, b) == a[1] < b[1] \/ (a[1] = b[1] /\ a[2] < b[2])

\* sorted(items, key=lambda kv: natural_chrom_key(kv[0])): a stable sort, as an
\* insertion sort that puts each item after the items whose key is not greater
RECURSIVE insert_sorted(_, _)
insert_sorted(sortedItems, kv) ==
    IF sortedItems = <<>> THEN <<kv>>
    ELSE IF tuple_lt(natural_chrom_key(kv[1]), natural_chrom_key(Head(sortedItems)[1]))
         THEN <<kv>> \o sortedItems
         ELSE <<Head(sortedItems)>> \o insert_sorted(Tail(sortedItems), kv)
RECURSIVE sorted_from(_, _, _)
sorted_from(items, k, acc) ==
    IF k > Len(items) THEN acc ELSE sorted_from(items, k + 1, insert_sorted(acc, items[k]))
sorted(items) == sorted_from(items, 1, <<>>)

----------------------------------------------------------------------------
(* load_chromosomes, from the text the fetch returned (lines 56-78). *)

\* a variant that reads the first n fields and ignores the rest
unpack_at_least(fields, n) == Len(fields) >= n

\* a, b, ... = fields: the unpacking of n targets succeeds on exactly n fields
unpack_ok(fields, n) == Len(fields) = n

\* a variant that keeps the first size of a name: chrom_map.setdefault(name, size)
dict_setdefault(d, name, size) ==
    IF \E k \in 1..Len(d) : d[k][1] = name THEN d ELSE Append(d, <<name, size>>)

\* chrom_map[name] = size on an insertion-ordered dict of <<name, size>> items
dict_set(d, name, size) ==
    IF \E k \in 1..Len(d) : d[k][1] = name
    THEN [k \in 1..Len(d) |-> IF d[k][1] = name THEN <<name, size>> ELSE d[k]]
    ELSE Append(d, <<name, size>>)

\* the loop of lines 58-72: the dict it builds, or the exception a line raised
RECURSIVE chrom_loop(_, _, _)
chrom_loop(lines, k, chrom_map) ==
    IF k > Len(lines) THEN [err |-> NoError, val |-> chrom_map]
    ELSE IF strip(lines[k]) = <<>> THEN chrom_loop(lines, k + 1, chrom_map)
    ELSE LET fields == split(lines[k], TAB) IN
         IF ~unpack_ok(fields, 2) THEN [err |-> ValueError, val |-> <<>>]
         ELSE LET chrom == fields[1]
                  size_str == fields[2]
              IN  IF ~in_CANONICAL_CHROMS(chrom) THEN chrom_loop(lines, k + 1, chrom_map)
                  ELSE LET size == int(size_str)
                           name == IF startswith(chrom, chr) THEN slice_from(chrom, 3)
                                                             ELSE chrom
                       IN  IF ~size.ok THEN [err |-> ValueError, val |-> <<>>]
                           ELSE chrom_loop(lines, k + 1, dict_set(chrom_map, name, size.val))

\* a variant that emits the names by iterating the set CANONICAL_CHROMS, unsorted
load_chromosomes_table_order(txt) ==
    LET looped == chrom_loop(splitlines(txt), 1, <<>>)
        has(c) == \E m \in 1..Len(looped.val) : looped.val[m][1] = slice_from(c, 3)
        names == SelectSeq(CANONICAL_CHROMS_table, has)
    IN  IF looped.err # NoError THEN looped
        ELSE [err |-> NoError,
              val |-> [k \in 1..Len(names) |->
                          [chromosome |-> slice_from(names[k], 3),
                           length |-> looped.val[CHOOSE m \in 1..Len(looped.val) :
                                             looped.val[m][1] = slice_from(names[k], 3)][2]]]]

load_chromosomes(txt) ==
    LET looped == chrom_loop(splitlines(txt), 1, <<>>)
        items == sorted(looped.val)
    IN  IF looped.err # NoError THEN looped
        ELSE [err |-> NoError,
              val |-> [k \in 1..Len(items) |->
                          [chromosome |-> items[k][1], length |-> items[k][2]]]]

----------------------------------------------------------------------------
(* load_cytobands, from the text the fetch returned (lines 93-108). *)

\* a variant that puts the smaller coordinate first
cytoband_record_normalized(chrom, chromStart, chromEnd, name, stain) ==
    [chrom |-> chrom,
     chromStart |-> IF chromStart <= chromEnd THEN chromStart ELSE chromEnd,
     chromEnd |-> IF chromStart <= chromEnd THEN chromEnd ELSE chromStart,
     name |-> name, stain |-> stain]

\* the dict literal of lines 100-106
cytoband_record(chrom, chromStart, chromEnd, name, stain) ==
    [chrom |-> chrom, chromStart |-> chromStart, chromEnd |-> chromEnd,
     name |-> name, stain |-> stain]

\* a variant that drops a record already in the list
cytobands_append_unique(cytobands, record) ==
    IF \E k \in 1..Len(cytobands) : cytobands[k] = record THEN cytobands
    ELSE Append(cytobands, record)

\* cytobands.append(record)
cytobands_append(cytobands, record) == Append(cytobands, record)

RECURSIVE cyto_loop(_, _, _)
cyto_loop(lines, k, cytobands) ==
    IF k > Len(lines) THEN [err |-> NoError, val |-> cytobands]
    ELSE IF strip(lines[k]) = <<>> THEN cyto_loop(lines, k + 1, cytobands)
    ELSE LET fields == split(lines[k], TAB) IN
         IF ~unpack_ok(fields, 5) THEN [err |-> ValueError, val |-> <<>>]
         ELSE LET start == int(fields[2])
                  end == int(fields[3])
              IN  IF ~start.ok \/ ~end.ok THEN [err |-> ValueError, val |-> <<>>]
                  ELSE cyto_loop(lines, k + 1,
                                 cytobands_append(cytobands,
                                     cytoband_record(fields[1], start.val, end.val,
                                                     fields[4], fields[5])))

load_cytobands(txt) == cyto_loop(splitlines(txt), 1, <<>>)

----------------------------------------------------------------------------
(* The inputs the model enumerates. *)

\* a file whose lines are given: every line ends with a line break
RECURSIVE join_lines(_)
join_lines(lines) ==
    IF lines = <<>> THEN <<>> ELSE Head(lines) \o <<NL>> \o join_lines(Tail(lines))

\* <label> TAB <size>
sizes_line(label, size) == label \o <<TAB>> \o size
\* <chrom> TAB <start> TAB <end> TAB <name> TAB <stain>
cyto_line(chrom, start, end, name, stain) ==
    chrom \o <<TAB>> \o start \o <<TAB>> \o end \o <<TAB>> \o name \o <<TAB>> \o stain

SizesLinePool ==
    { sizes_line(chr \o <<"1">>, <<"1", "0">>),
      sizes_line(chr \o <<"1">>, <<"7">>),
      sizes_line(chr \o <<"2">>, <<"2", "0">>),
      sizes_line(chr \o <<"1", "0">>, <<"1", "2">>),
      sizes_line(chr \o <<"2", "2">>, <<"5">>),
      sizes_line(chr \o <<"X">>, <<"3", "0">>),
      sizes_line(chr \o <<"M">>, <<"1", "6">>),
      sizes_line(chr \o <<"2", "3">>, <<"4", "0">>),
      <<TAB>>,
      sizes_line(chr \o <<"1">>, <<"1", "0">>) \o <<TAB, "x">>,
      chr \o <<"1">>,
      sizes_line(chr \o <<"1">>, <<"x">>),
      sizes_line(chr \o <<"U", "n">>, <<"x">>) }

\* the lines of the ordering example: labels X, 2, Y, 1, M, 22
ExampleLines ==
    << sizes_line(chr \o <<"X">>, <<"3", "0">>),
       sizes_line(chr \o <<"2">>, <<"2", "0">>),
       sizes_line(chr \o <<"Y">>, <<"9">>),
       sizes_line(chr \o <<"1">>, <<"1", "0">>),
       sizes_line(chr \o <<"M">>, <<"1", "6">>),
       sizes_line(chr \o <<"2", "2">>, <<"5">> ) >>

Orderings(n) == {p \in [1..n -> 1..n] : \A a, b \in 1..n : a # b => p[a] # p[b]}

ExampleOrders == {[k \in 1..Len(ExampleLines) |-> ExampleLines[p[k]]] :
                      p \in Orderings(Len(ExampleLines))}

CytoLinePool ==
    { cyto_line(chr \o <<"1">>, <<"0">>, <<"5">>, <<"p", "1">>, <<"g">>),
      cyto_line(chr \o <<"1">>, <<"5">>, <<"9">>, <<"q", "1">>, <<"s">>),
      cyto_line(chr \o <<"U", "n">>, <<"0">>, <<"3">>, <<"p", "1">>, <<"g">>),
      cyto_line(chr \o <<"1">>, <<"5">>, <<"3">>, <<"p", "1">>, <<"g">>),
      cyto_line(chr \o <<"1">>, <<"-", "2">>, <<"3">>, <<"p", "1">>, <<"g">>),
      <<>>,
      chr \o <<"1", TAB, "0", TAB, "5", TAB, "p", "1">>,
      cyto_line(chr \o <<"1">>, <<"0">>, <<"5">>, <<"p", "1">>, <<"g">>) \o <<TAB, "x">>,
      cyto_line(chr \o <<"1">>, <<"x">>, <<"5">>, <<"p", "1">>, <<"g">>),
      cyto_line(chr \o <<"1">>, <<"0">>, <<"x">>, <<"p", "1">>, <<"g">>) }

SeqsUpTo(S, n) == UNION {[1..m -> S] : m \in 0..n}

SizesInputs == SeqsUpTo(SizesLinePool, MaxLines) \cup ExampleOrders
CytoInputs == SeqsUpTo(CytoLinePool, MaxLines)

LabelPool ==
    { <<"1">>, <<"2">>, <<"1", "0">>, <<"2", "2">>, <<"X">>, <<"Y">>, <<"M">>,
      <<"M", "T">>, <<"U", "n">>, <<"W">>, <<>> }

----------------------------------------------------------------------------
(* The parser harness: one pure function applied to one enumerated input. *)

Pending == [err |-> "pending", val |-> <<>>]

BuildIdle ==
    /\ ASSEMBLY_ALIAS = <<>>
    /\ remote = <<>>
    /\ pc = "idle"
    /\ pos = 0
    /\ chromosomes = 0
    /\ cache_by_ucsc = <<>>
    /\ result = <<>>
    /\ heap = <<>>
    /\ returned = <<>>
    /\ written = <<>>
    /\ error = NoError
    /\ fetchLog = <<>>
    /\ run = "none"
    /\ prev = <<>>
    /\ nMut = 0

InitParse ==
    /\ BuildIdle
    /\ hashSeed \in HashSeeds
    /\ out = Pending
    /\ \/ /\ kind = "sizes"
          /\ inputLines \in SizesInputs
          /\ text = join_lines(inputLines)
          /\ labels = <<>>
       \/ /\ kind = "cyto"
          /\ inputLines \in CytoInputs
          /\ text = join_lines(inputLines)
          /\ labels = <<>>
       \/ /\ kind = "key"
          /\ inputLines = <<>>
          /\ text = <<>>
          /\ labels \in LabelPool \X LabelPool

ApplyLoadChromosomes ==
    /\ kind = "sizes"
    /\ out = Pending
    /\ out' = load_chromosomes(text)
    /\ UNCHANGED <<hashSeed, buildVars, kind, inputLines, text, labels>>

ApplyLoadCytobands ==
    /\ kind = "cyto"
    /\ out = Pending
    /\ out' = load_cytobands(text)
    /\ UNCHANGED <<hashSeed, buildVars, kind, inputLines, text, labels>>

\* the sort of line 76 over the given labels (each with size 0)
ApplySorted ==
    /\ kind = "key"
    /\ out = Pending
    /\ out' = [err |-> NoError,
               val |-> sorted([k \in 1..Len(labels) |-> <<labels[k], 0>>])]
    /\ UNCHANGED <<hashSeed, buildVars, kind, inputLines, text, labels>>

NextParse == ApplyLoadChromosomes \/ ApplyLoadCytobands \/ ApplySorted

SpecParse == InitParse /\ [][NextParse]_vars

----------------------------------------------------------------------------
(* The world of build_genome_object: alias configurations and server answers. *)

Assemblies == {"hg38", "hg19"}

\* the alias keys, in declared order (the first four are those of lines 10-15)
AliasNames == <<"hg38", "grch38", "hg19", "grch37", "hs1", "t2t">>

\* every configuration of up to MaxAliases aliases: the k-th alias may name any assembly
AliasConfigs ==
    {[k \in 1..n |-> [label |-> AliasNames[k], ucsc |-> u[k]]] :
        n \in 0..MaxAliases, u \in [1..MaxAliases -> Assemblies]}

Unasked == [status |-> "unasked", body |-> <<>>]
HttpError == [status |-> "http_error", body |-> <<>>]
BadGzip == [status |-> "bad_gzip", body |-> <<>>]
Ok(lines) == [status |-> "ok", body |-> join_lines(lines)]

GoodSizesFiles ==
    { << sizes_line(chr \o <<"X">>, <<"3", "0">>), sizes_line(chr \o <<"1">>, <<"1", "0">>) >>,
      << sizes_line(chr \o <<"2", "3">>, <<"4", "0">>),
         sizes_line(chr \o <<"2">>, <<"2", "0">>),
         sizes_line(chr \o <<"U", "n">>, <<"x">>) >> }

BadSizesLines ==
    { sizes_line(chr \o <<"1">>, <<"1", "0">>) \o <<TAB, "x">>,
      chr \o <<"1">>,
      sizes_line(chr \o <<"1">>, <<"x">>),
      chr \o <<"U", "n">> }

BadSizesFiles ==
    {<<bad, sizes_line(chr \o <<"2">>, <<"2", "0">>)>> : bad \in BadSizesLines}
    \cup {<<sizes_line(chr \o <<"2">>, <<"2", "0">>), bad>> : bad \in BadSizesLines}

GoodCytoFiles ==
    { << cyto_line(chr \o <<"1">>, <<"0">>, <<"5">>, <<"p", "1">>, <<"g">>),
         cyto_line(chr \o <<"1">>, <<"5">>, <<"9">>, <<"q", "1">>, <<"s">>) >>,
      << cyto_line(chr \o <<"U", "n">>, <<"0">>, <<"3">>, <<"p", "1">>, <<"g">>),
         cyto_line(chr \o <<"1">>, <<"5">>, <<"3">>, <<"p", "1">>, <<"g">>) >> }

BadCytoLines ==
    { chr \o <<"1", TAB, "0", TAB, "5", TAB, "p", "1">>,
      cyto_line(chr \o <<"1">>, <<"0">>, <<"5">>, <<"p", "1">>, <<"g">>) \o <<TAB, "x">>,
      cyto_line(chr \o <<"1">>, <<"x">>, <<"5">>, <<"p", "1">>, <<"g">>),
      cyto_line(chr \o <<"1">>, <<"0">>, <<"x">>, <<"p", "1">>, <<"g">>),
      cyto_line(chr \o <<"U", "n">>, <<"x">>, <<"3">>, <<"p", "1">>, <<"g">>) }

BadCytoFiles ==
    {<<bad, cyto_line(chr \o <<"1">>, <<"0">>, <<"5">>, <<"p", "1">>, <<"g">>)>> : bad \in BadCytoLines}
    \cup {<<cyto_line(chr \o <<"1">>, <<"0">>, <<"5">>, <<"p", "1">>, <<"g">>), bad>> : bad \in BadCytoLines}

\* what the server can answer to the chrom.sizes request and to the cytoBand.txt.gz request
SizesAnswers == {Ok(f) : f \in GoodSizesFiles \cup BadSizesFiles} \cup {HttpError}
CytoAnswers == {Ok(f) : f \in GoodCytoFiles \cup BadCytoFiles} \cup {HttpError, BadGzip}

\* The answer to a request is fixed once it has been given: a later request for the
\* same file (a second run over identical raw inputs) receives the same answer.
answers(asked, pool) == IF asked = Unasked THEN pool ELSE {asked}

\* fetch_text: requests.get, raise_for_status, resp.text
fetch_text(resp) ==
    IF resp.status # "ok" THEN [err |-> RequestException, val |-> <<>>]
    ELSE [err |-> NoError, val |-> resp.body]

\* fetch_gzip_text: requests.get, raise_for_status, gunzip and decode
fetch_gzip_text(resp) ==
    IF resp.status = "http_error" THEN [err |-> RequestException, val |-> <<>>]
    ELSE IF resp.status = "bad_gzip" THEN [err |-> BadGzipFile, val |-> <<>>]
    ELSE [err |-> NoError, val |-> resp.body]

----------------------------------------------------------------------------
(* build_genome_object and the main block. *)

NoCatalog == [given |-> FALSE, catalog |-> <<>>]
NoFile == [exists |-> FALSE, content |-> <<>>]
NoPrev == [known |-> FALSE, hashSeed |-> 0, error |-> NoError, written |-> NoFile]
EmptyCache == [u \in {} |-> 0]

HarnessIdle ==
    /\ kind = "none"
    /\ inputLines = <<>>
    /\ text = <<>>
    /\ labels = <<>>
    /\ out = Pending

\* the locals of a fresh call
FreshRun ==
    [pc |-> "loop", pos |-> 1, chromosomes |-> 0, cache_by_ucsc |-> EmptyCache,
     result |-> <<>>, heap |-> <<>>]

Init ==
    /\ HarnessIdle
    /\ hashSeed \in HashSeeds
    /\ ASSEMBLY_ALIAS \in AliasConfigs
    /\ remote = [u \in Assemblies |-> [sizes |-> Unasked, cyto |-> Unasked]]
    /\ pc = FreshRun.pc
    /\ pos = FreshRun.pos
    /\ chromosomes = FreshRun.chromosomes
    /\ cache_by_ucsc = FreshRun.cache_by_ucsc
    /\ result = FreshRun.result
    /\ heap = FreshRun.heap
    /\ returned = NoCatalog
    /\ written = NoFile
    /\ error = NoError
    /\ fetchLog = <<>>
    /\ run = "first"
    /\ prev = NoPrev
    /\ nMut = 0

\* the item the for loop of line 124 is at
label == ASSEMBLY_ALIAS[pos].label
ucsc == ASSEMBLY_ALIAS[pos].ucsc

\* a variant that never finds the assembly cached
cache_hit_never(u) == FALSE

\* line 125: ucsc in cache_by_ucsc
cache_hit(u) == u \in DOMAIN cache_by_ucsc

\* a variant with one slot: whatever assembly was cached first is handed out
cache_entry_any(u) == cache_by_ucsc[CHOOSE v \in DOMAIN cache_by_ucsc : TRUE]

\* lines 135-136: cache_by_ucsc[ucsc]
cache_entry(u) == cache_by_ucsc[u]

\* a variant that catches the exception and returns the catalog built so far
Raise_partial(e) ==
    /\ pc' = "returned"
    /\ error' = e
    /\ returned' = [given |-> TRUE, catalog |-> result]
    /\ UNCHANGED <<pos, chromosomes, cache_by_ucsc, result, heap, written>>

\* An exception leaves build_genome_object and the main block: nothing is returned,
\* nothing is written, the process ends.
Raise(e) ==
    /\ pc' = "failed"
    /\ error' = e
    /\ UNCHANGED <<pos, chromosomes, cache_by_ucsc, result, heap, returned, written>>

\* line 126: the cache misses; load_chromosomes fetches and parses
LoadChromosomes ==
    /\ pc = "loop"
    /\ pos <= Len(ASSEMBLY_ALIAS)
    /\ ~cache_hit(ucsc)
    /\ \E resp \in answers(remote[ucsc].sizes, SizesAnswers) :
          LET fetched == fetch_text(resp)
              parsed == load_chromosomes(fetched.val)
          IN  /\ remote' = [remote EXCEPT ![ucsc].sizes = resp]
              /\ fetchLog' = Append(fetchLog, <<"chrom.sizes", ucsc>>)
              /\ IF fetched.err # NoError THEN Raise(fetched.err)
                 ELSE IF parsed.err # NoError THEN Raise(parsed.err)
                 ELSE /\ heap' = Append(heap, parsed.val)
                      /\ chromosomes' = Len(heap) + 1
                      /\ pc' = "cyto"
                      /\ UNCHANGED <<pos, cache_by_ucsc, result, returned, written, error>>
    /\ UNCHANGED <<hashSeed, ASSEMBLY_ALIAS, run, prev, nMut, parseVars>>

\* lines 127-131: load_cytobands fetches and parses; the pair is cached
LoadCytobands ==
    /\ pc = "cyto"
    /\ \E resp \in answers(remote[ucsc].cyto, CytoAnswers) :
          LET fetched == fetch_gzip_text(resp)
              parsed == load_cytobands(fetched.val)
          IN  /\ remote' = [remote EXCEPT ![ucsc].cyto = resp]
              /\ fetchLog' = Append(fetchLog, <<"cytoBand", ucsc>>)
              /\ IF fetched.err # NoError THEN Raise(fetched.err)
                 ELSE IF parsed.err # NoError THEN Raise(parsed.err)
                 ELSE /\ heap' = Append(heap, parsed.val)
                      /\ cache_by_ucsc' =
                            [u \in DOMAIN cache_by_ucsc \cup {ucsc} |->
                                IF u = ucsc
                                THEN [chromosomes |-> chromosomes, cytobands |-> Len(heap) + 1]
                                ELSE cache_by_ucsc[u]]
                      /\ pc' = "insert"
                      /\ UNCHANGED <<pos, chromosomes, result, returned, written, error>>
    /\ UNCHANGED <<hashSeed, ASSEMBLY_ALIAS, run, prev, nMut, parseVars>>

\* a variant without list(...): the alias holds the cached lists themselves
Insert_shared ==
    /\ \/ pc = "insert"
       \/ pc = "loop" /\ pos <= Len(ASSEMBLY_ALIAS) /\ cache_hit(ucsc)
    /\ result' = Append(result, [label |-> label,
                                 chromosomes |-> cache_entry(ucsc).chromosomes,
                                 cytobands |-> cache_entry(ucsc).cytobands])
    /\ pos' = pos + 1
    /\ pc' = "loop"
    /\ UNCHANGED <<hashSeed, ASSEMBLY_ALIAS, remote, chromosomes, cache_by_ucsc, heap, returned,
                   written, error, fetchLog, run, prev, nMut, parseVars>>

\* lines 134-137: result[label] gets two new lists, copies of the cached ones
\* (the keys of ASSEMBLY_ALIAS are distinct, so the key is new)
Insert ==
    /\ \/ pc = "insert"
       \/ pc = "loop" /\ pos <= Len(ASSEMBLY_ALIAS) /\ cache_hit(ucsc)
    /\ heap' = heap \o << heap[cache_entry(ucsc).chromosomes],
                          heap[cache_entry(ucsc).cytobands] >>
    /\ result' = Append(result, [label |-> label,
                                 chromosomes |-> Len(heap) + 1,
                                 cytobands |-> Len(heap) + 2])
    /\ pos' = pos + 1
    /\ pc' = "loop"
    /\ UNCHANGED <<hashSeed, ASSEMBLY_ALIAS, remote, chromosomes, cache_by_ucsc, returned,
                   written, error, fetchLog, run, prev, nMut, parseVars>>

\* line 139: the loop is over
Return ==
    /\ pc = "loop"
    /\ pos > Len(ASSEMBLY_ALIAS)
    /\ returned' = [given |-> TRUE, catalog |-> result]
    /\ pc' = "returned"
    /\ UNCHANGED <<hashSeed, ASSEMBLY_ALIAS, remote, pos, chromosomes, cache_by_ucsc, result,
                   heap, written, error, fetchLog, run, prev, nMut, parseVars>>

\* json.dump of a catalog: the keys in insertion order, the lists by content
serialize(catalog, h) ==
    [k \in 1..Len(catalog) |->
        [label |-> catalog[k].label,
         chromosomes |-> h[catalog[k].chromosomes],
         cytobands |-> h[catalog[k].cytobands]]]

\* lines 143-148: the main block writes the catalog
Dump ==
    /\ pc = "returned"
    /\ written' = [exists |-> TRUE, content |-> serialize(returned.catalog, heap)]
    /\ pc' = "done"
    /\ UNCHANGED <<hashSeed, ASSEMBLY_ALIAS, remote, pos, chromosomes, cache_by_ucsc, result,
                   heap, returned, error, fetchLog, run, prev, nMut, parseVars>>

\* A caller that holds the returned catalog mutates one of its lists in place.
Marker == [mutated |-> TRUE]
list_append(lst, x) == Append(lst, x)
list_del(lst, j) == SubSeq(lst, 1, j - 1) \o SubSeq(lst, j + 1, Len(lst))
list_setitem(lst, j, x) == [lst EXCEPT ![j] = x]

Mutate ==
    /\ pc = "done"
    /\ nMut < MaxMutations
    /\ \E k \in 1..Len(returned.catalog), field \in {"chromosomes", "cytobands"} :
          LET ref == returned.catalog[k][field] IN
          \/ heap' = [heap EXCEPT ![ref] = list_append(@, Marker)]
          \/ \E j \in 1..Len(heap[ref]) : heap' = [heap EXCEPT ![ref] = list_del(@, j)]
          \/ \E j \in 1..Len(heap[ref]) : heap' = [heap EXCEPT ![ref] = list_setitem(@, j, Marker)]
    /\ nMut' = nMut + 1
    /\ UNCHANGED <<hashSeed, ASSEMBLY_ALIAS, remote, pc, pos, chromosomes, cache_by_ucsc,
                   result, returned, written, error, fetchLog, run, prev, parseVars>>

\* The program is run again, as a new process, against the same server files.
Rerun ==
    /\ pc \in {"done", "failed"}
    /\ run = "first"
    /\ prev' = [known |-> TRUE, hashSeed |-> hashSeed, error |-> error, written |-> written]
    /\ run' = "second"
    /\ hashSeed' \in HashSeeds
    /\ pc' = FreshRun.pc
    /\ pos' = FreshRun.pos
    /\ chromosomes' = FreshRun.chromosomes
    /\ cache_by_ucsc' = FreshRun.cache_by_ucsc
    /\ result' = FreshRun.result
    /\ heap' = FreshRun.heap
    /\ returned' = NoCatalog
    /\ written' = NoFile
    /\ error' = NoError
    /\ fetchLog' = <<>>
    /\ UNCHANGED <<ASSEMBLY_ALIAS, remote, nMut, parseVars>>

\* one run of the program, and what a caller may then do to the catalog
Next == LoadChromosomes \/ LoadCytobands \/ Insert \/ Return \/ Dump \/ Mutate

Spec == Init /\ [][Next]_vars

\* two runs of the program, one after the other
NextTwoRuns == LoadChromosomes \/ LoadCytobands \/ Insert \/ Return \/ Dump \/ Rerun

SpecTwoRuns == Init /\ [][NextTwoRuns]_vars

----------------------------------------------------------------------------
(* What the claims speak of, stated without the program's own operations:   *)
(* fields by the positions of the tabs, integers by their decimal writing.  *)

IsBlank(line) == \A k \in 1..Len(line) : line[k] \in Whitespace
Tabs(line) == {k \in 1..Len(line) : line[k] = TAB}
FieldCount(line) == Cardinality(Tabs(line)) + 1
NthTab(line, n) == CHOOSE k \in Tabs(line) : Cardinality({m \in Tabs(line) : m < k}) = n - 1
Field(line, j) ==
    SubSeq(line,
           IF j = 1 THEN 1 ELSE NthTab(line, j - 1) + 1,
           IF j = FieldCount(line) THEN Len(line) ELSE NthTab(line, j) - 1)

\* the decimal writing of the integers the enumerated inputs carry
IntRange == (0 - 9)..99
Decimal(n) == IF n < 0 THEN <<"-">> \o str(0 - n) ELSE str(n)
IsIntText(s) == \E n \in IntRange : Decimal(n) = s
IntOf(s) == CHOOSE n \in IntRange : Decimal(n) = s

NonBlank(lines) == SelectSeq(lines, LAMBDA l : ~IsBlank(l))

\* the display labels in their natural order: 1..22, X, Y, M
ReferenceOrder == [k \in 1..22 |-> str(k)] \o << <<"X">>, <<"Y">>, <<"M">> >>
RankOf(lab) == CHOOSE k \in 1..Len(ReferenceOrder) : ReferenceOrder[k] = lab
RefCanonical == {chr \o ReferenceOrder[k] : k \in 1..Len(ReferenceOrder)}

WellFormedSizes(lines) ==
    \A m \in 1..Len(lines) :
        IsBlank(lines[m]) \/ (FieldCount(lines[m]) = 2 /\ IsIntText(Field(lines[m], 2)))

WellFormedCyto(lines) ==
    \A m \in 1..Len(lines) :
        IsBlank(lines[m])
        \/ (FieldCount(lines[m]) = 5 /\ IsIntText(Field(lines[m], 2))
                                     /\ IsIntText(Field(lines[m], 3)))

\* the lines of a well-formed sizes file that carry the raw label
LinesOf(lines, raw) ==
    {m \in 1..Len(lines) : ~IsBlank(lines[m]) /\ Field(lines[m], 1) = raw}
LastLineOf(lines, raw) ==
    CHOOSE m \in LinesOf(lines, raw) : \A o \in LinesOf(lines, raw) : o <= m

\* the reference of load_chromosomes on a well-formed file, as a set of records
RefChromSet(lines) ==
    {[chromosome |-> SubSeq(raw, 4, Len(raw)),
      length |-> IntOf(Field(lines[LastLineOf(lines, raw)], 2))] :
        raw \in {c \in RefCanonical : LinesOf(lines, c) # {}}}

\* the same records in the natural order of their labels
RefChromSeq(lines) ==
    LET recs == RefChromSet(lines) IN
    [n \in 1..Cardinality(recs) |->
        CHOOSE r \in recs :
            Cardinality({q \in recs : RankOf(q.chromosome) < RankOf(r.chromosome)}) = n - 1]

\* the reference of load_cytobands on a well-formed file
RefCytoSeq(lines) ==
    [n \in 1..Len(NonBlank(lines)) |->
        LET l == NonBlank(lines)[n] IN
        [chrom |-> Field(l, 1), chromStart |-> IntOf(Field(l, 2)),
         chromEnd |-> IntOf(Field(l, 3)), name |-> Field(l, 4), stain |-> Field(l, 5)]]

IsExampleOrder(lines) ==
    /\ Len(lines) = Len(ExampleLines)
    /\ {lines[k] : k \in 1..Len(lines)} = {ExampleLines[k] : k \in 1..Len(ExampleLines)}

LabelsOf(recs) == [k \in 1..Len(recs) |-> recs[k].chromosome]

\* the order the natural key is said to give to two labels
IsNumericLabel(lab) == \E n \in 0..99 : str(n) = lab
NumericValue(lab) == CHOOSE n \in 0..99 : str(n) = lab
RankTable == << <<"X">>, <<"Y">>, <<"M">> >>
IsRanked(lab) == lab \in {<<"X">>, <<"Y">>, <<"M">>, <<"M", "T">>}
TablePos(lab) == CHOOSE k \in 1..3 : RankTable[k] = lab
SortsBefore(x, y) ==
    \/ IsNumericLabel(x) /\ ~IsNumericLabel(y)
    \/ IsNumericLabel(x) /\ IsNumericLabel(y) /\ NumericValue(x) < NumericValue(y)
    \/ x \in {<<"X">>, <<"Y">>, <<"M">>} /\ y \in {<<"X">>, <<"Y">>, <<"M">>}
          /\ TablePos(x) < TablePos(y)
    \/ IsRanked(x) /\ ~IsRanked(y) /\ ~IsNumericLabel(y)

----------------------------------------------------------------------------
(* Claims about the parsers, under SpecParse. *)

SizesDone == kind = "sizes" /\ out # Pending
CytoDone == kind = "cyto" /\ out # Pending
KeyDone == kind = "key" /\ out # Pending

\* C5: the output of load_chromosomes is in natural order for every order of the input
\* lines: numeric labels first and ascending by value, then X, Y, M; the labels
\* X, 2, Y, 1, M, 22 come out as 1, 2, 22, X, Y, M in whatever order they went in; and the
\* sort puts a label outside the rank table after every numeric and every ranked label.
C5_NaturalOrder ==
    /\ SizesDone /\ out.err = NoError =>
          \A a, b \in 1..Len(out.val) :
              a < b => RankOf(out.val[a].chromosome) < RankOf(out.val[b].chromosome)
    /\ SizesDone /\ IsExampleOrder(inputLines) =>
          /\ out.err = NoError
          /\ LabelsOf(out.val) = << <<"1">>, <<"2">>, <<"2", "2">>, <<"X">>, <<"Y">>, <<"M">> >>
    /\ KeyDone =>
          /\ SortsBefore(labels[1], labels[2]) =>
                <<out.val[1][1], out.val[2][1]>> = <<labels[1], labels[2]>>
          /\ SortsBefore(labels[2], labels[1]) =>
                <<out.val[1][1], out.val[2][1]>> = <<labels[2], labels[1]>>

C5_Witness ==
    /\ SizesDone
    /\ IsExampleOrder(inputLines)
    /\ inputLines[1] = ExampleLines[1]
    /\ inputLines[6] = ExampleLines[4]
    /\ out.err = NoError
    /\ Len(out.val) = 6
    /\ out.val[1].chromosome = <<"1">>

\* C6: on a well-formed chromosome-sizes file load_chromosomes succeeds and returns exactly
\* one record per canonical label of the file, prefix stripped, with the size of the last
\* line carrying the label; non-canonical lines give nothing; labels are unique and the
\* output has at most 25 records.
C6_ExactRecords ==
    SizesDone /\ WellFormedSizes(inputLines) =>
        /\ out.err = NoError
        /\ {out.val[k] : k \in 1..Len(out.val)} = RefChromSet(inputLines)
        /\ \A a, b \in 1..Len(out.val) :
              a # b => out.val[a].chromosome # out.val[b].chromosome
        /\ Len(out.val) <= 25

C6_Witness ==
    /\ SizesDone
    /\ WellFormedSizes(inputLines)
    /\ Len(inputLines) = 3
    /\ Field(inputLines[1], 1) = chr \o <<"1">>
    /\ Field(inputLines[2], 1) = chr \o <<"2", "3">>
    /\ Field(inputLines[3], 1) = chr \o <<"1">>
    /\ inputLines[1] # inputLines[3]
    /\ out.err = NoError
    /\ Len(out.val) = 1
    /\ out.val[1].length = IntOf(Field(inputLines[3], 2))

\* C7: on a well-formed cytoband file load_cytobands succeeds and returns one record per
\* non-blank line, in line order, repeated lines repeated, no line filtered by its contig,
\* the chrom, name and stain fields as written.
C7_OnePerLine ==
    CytoDone /\ WellFormedCyto(inputLines) =>
        /\ out.err = NoError
        /\ Len(out.val) = Len(NonBlank(inputLines))
        /\ \A k \in 1..Len(out.val) :
              /\ out.val[k].chrom = Field(NonBlank(inputLines)[k], 1)
              /\ out.val[k].name = Field(NonBlank(inputLines)[k], 4)
              /\ out.val[k].stain = Field(NonBlank(inputLines)[k], 5)

C7_Witness ==
    /\ CytoDone
    /\ WellFormedCyto(inputLines)
    /\ Len(inputLines) = 3
    /\ inputLines[1] = <<>>
    /\ inputLines[2] = inputLines[3]
    /\ Len(out.val) = 2
    /\ out.val[1] = out.val[2]
    /\ out.val[1].chrom = chr \o <<"U", "n">>

\* C8 as claimed: every record of the output has 0 <= chromStart < chromEnd, whatever
\* integers the lines carry.
C8_Original ==
    CytoDone /\ out.err = NoError =>
        \A k \in 1..Len(out.val) :
            out.val[k].chromStart >= 0 /\ out.val[k].chromStart < out.val[k].chromEnd

\* C8 as amended: chromStart and chromEnd of a record are the integers written in the
\* second and third field of its line, unchecked; so 0 <= chromStart < chromEnd holds of
\* a record exactly when it holds of the integers of its line.
C8_FieldsAsWritten ==
    CytoDone /\ WellFormedCyto(inputLines) =>
        /\ out.err = NoError
        /\ Len(out.val) = Len(NonBlank(inputLines))
        /\ \A k \in 1..Len(out.val) :
              LET l == NonBlank(inputLines)[k] IN
              /\ out.val[k].chromStart = IntOf(Field(l, 2))
              /\ out.val[k].chromEnd = IntOf(Field(l, 3))
              /\ (0 <= out.val[k].chromStart /\ out.val[k].chromStart < out.val[k].chromEnd)
                    <=> (0 <= IntOf(Field(l, 2)) /\ IntOf(Field(l, 2)) < IntOf(Field(l, 3)))

C8_Witness ==
    /\ CytoDone
    /\ out.err = NoError
    /\ Len(out.val) = 2
    /\ out.val[1].chromStart > out.val[1].chromEnd
    /\ out.val[2].chromStart < 0

----------------------------------------------------------------------------
(* Claims about build_genome_object, under Spec. *)

SizesFiles == GoodSizesFiles \cup BadSizesFiles
CytoFiles == GoodCytoFiles \cup BadCytoFiles

Fetched(what, u) == \E k \in 1..Len(fetchLog) : fetchLog[k] = <<what, u>>
AnswerTo(ev) == IF ev[1] = "chrom.sizes" THEN remote[ev[2]].sizes ELSE remote[ev[2]].cyto

\* an answer on which the fetch or the parse fails
BadSizesAnswers == {Ok(f) : f \in BadSizesFiles} \cup {HttpError}
BadCytoAnswers == {Ok(f) : f \in BadCytoFiles} \cup {HttpError, BadGzip}
BadAnswer(ev) ==
    \/ ev[1] = "chrom.sizes" /\ AnswerTo(ev) \in BadSizesAnswers
    \/ ev[1] = "cytoBand" /\ AnswerTo(ev) \in BadCytoAnswers

UcscOf(k) == ASSEMBLY_ALIAS[k].ucsc
Interleaved ==
    /\ Len(ASSEMBLY_ALIAS) = 3
    /\ UcscOf(1) = UcscOf(3)
    /\ UcscOf(1) # UcscOf(2)

\* C1: in one run no file is requested twice: at most one chrom.sizes request and at most
\* one cytoBand request per assembly, however many aliases name it and in whatever order.
C1_FetchOnce ==
    \A a, b \in 1..Len(fetchLog) : a # b => fetchLog[a] # fetchLog[b]

\* the configuration of lines 10-15, built in full with four requests
C1_Witness ==
    /\ pc = "done"
    /\ ASSEMBLY_ALIAS = << [label |-> "hg38", ucsc |-> "hg38"],
                           [label |-> "grch38", ucsc |-> "hg38"],
                           [label |-> "hg19", ucsc |-> "hg19"],
                           [label |-> "grch37", ucsc |-> "hg19"] >>
    /\ Len(result) = 4
    /\ fetchLog = << <<"chrom.sizes", "hg38">>, <<"cytoBand", "hg38">>,
                     <<"chrom.sizes", "hg19">>, <<"cytoBand", "hg19">> >>

\* C2: a failing fetch or parse is the last request of the run and leaves it failed, with
\* the exception recorded, nothing returned and nothing written, even when aliases had
\* been populated; a returned catalog holds every configured alias.
C2_AllOrNothing ==
    /\ \A k \in 1..Len(fetchLog) :
          BadAnswer(fetchLog[k]) => pc = "failed" /\ k = Len(fetchLog)
    /\ pc = "failed" =>
          /\ error # NoError
          /\ returned = NoCatalog
          /\ written = NoFile
          /\ fetchLog # <<>> /\ BadAnswer(fetchLog[Len(fetchLog)])
    /\ returned.given =>
          /\ error = NoError
          /\ [k \in 1..Len(returned.catalog) |-> returned.catalog[k].label]
                = [k \in 1..Len(ASSEMBLY_ALIAS) |-> ASSEMBLY_ALIAS[k].label]
    /\ written.exists => returned.given

C2_Witness ==
    /\ pc = "failed"
    /\ error = ValueError
    /\ Len(result) >= 1
    /\ fetchLog[Len(fetchLog)][1] = "cytoBand"
    /\ Len(fetchLog) = 4

\* the lists a caller reaches through alias k of the returned catalog
ListsOf(k) == << heap[returned.catalog[k].chromosomes], heap[returned.catalog[k].cytobands] >>
RefsOfCatalog ==
    {returned.catalog[k].chromosomes : k \in 1..Len(returned.catalog)}
    \cup {returned.catalog[k].cytobands : k \in 1..Len(returned.catalog)}

\* C3: in the returned catalog two aliases of one assembly hold equal sequences, every
\* sequence of the catalog is a list object of its own, and each in-place mutation of one
\* alias's sequence (append, delete, replace an element) changes that one list and no
\* other: the lists that differ from what was returned are at most as many as the mutations.
C3_Independent ==
    /\ returned.given /\ nMut = 0 =>
          \A a, b \in 1..Len(returned.catalog) :
              UcscOf(a) = UcscOf(b) => ListsOf(a) = ListsOf(b)
    /\ returned.given => Cardinality(RefsOfCatalog) = 2 * Len(returned.catalog)
    /\ pc = "done" =>
          Cardinality({kf \in (1..Len(returned.catalog)) \X {"chromosomes", "cytobands"} :
                          heap[returned.catalog[kf[1]][kf[2]]] # written.content[kf[1]][kf[2]]})
             <= nMut

C3_Witness ==
    /\ pc = "done"
    /\ nMut >= 1
    /\ \E a, b \in 1..Len(returned.catalog) :
          /\ a # b
          /\ UcscOf(a) = UcscOf(b)
          /\ ListsOf(a)[1] # ListsOf(b)[1]
          /\ ListsOf(a)[2] = ListsOf(b)[2]

MalformedSizesLine(line) ==
    ~IsBlank(line) /\ (FieldCount(line) # 2 \/ ~IsIntText(Field(line, 2)))
FatalSizesLine(line) ==
    ~IsBlank(line) /\ (FieldCount(line) # 2
                       \/ (Field(line, 1) \in RefCanonical /\ ~IsIntText(Field(line, 2))))
MalformedCytoLine(line) ==
    ~IsBlank(line) /\ (FieldCount(line) # 5 \/ ~IsIntText(Field(line, 2))
                                           \/ ~IsIntText(Field(line, 3)))
\* the answers that carry such a line
MalformedSizesAnswers ==
    {Ok(f) : f \in {g \in SizesFiles : \E m \in 1..Len(g) : MalformedSizesLine(g[m])}}
FatalSizesAnswers ==
    {Ok(f) : f \in {g \in SizesFiles : \E m \in 1..Len(g) : FatalSizesLine(g[m])}}
MalformedCytoAnswers ==
    {Ok(f) : f \in {g \in CytoFiles : \E m \in 1..Len(g) : MalformedCytoLine(g[m])}}

FormatFailure ==
    pc = "failed" /\ error = ValueError /\ returned = NoCatalog /\ written = NoFile

\* C4 as claimed: a fetched file with a non-blank line of the wrong field count or with a
\* non-integer numeric field fails the build with a format error, whatever the line's label.
C4_Original ==
    \A u \in Assemblies :
        /\ Fetched("chrom.sizes", u) /\ remote[u].sizes \in MalformedSizesAnswers
              => FormatFailure
        /\ Fetched("cytoBand", u) /\ remote[u].cyto \in MalformedCytoAnswers
              => FormatFailure

\* C4 as amended: the build fails with a format error, nothing returned or written, on a
\* fetched file with a non-blank line of the wrong field count (any label, any position),
\* on a cytoband line whose start or end is no integer, and on a chromosome-sizes line
\* with a canonical label whose size is no integer; a non-integer size on a line with a
\* non-canonical label is not looked at.
C4_FormatErrors ==
    \A u \in Assemblies :
        /\ Fetched("chrom.sizes", u) /\ remote[u].sizes \in FatalSizesAnswers
              => FormatFailure
        /\ Fetched("cytoBand", u) /\ remote[u].cyto \in MalformedCytoAnswers
              => FormatFailure

C4_Witness ==
    /\ FormatFailure
    /\ Len(result) >= 1
    /\ \E u \in Assemblies, f \in BadSizesFiles :
          /\ Fetched("chrom.sizes", u)
          /\ remote[u].sizes = Ok(f)
          /\ f[2] = chr \o <<"U", "n">>
          /\ fetchLog[Len(fetchLog)] = <<"chrom.sizes", u>>

\* C9: the second run, against the same server files and the same configuration, ends as
\* the first did: the same exception, or the same file written, key for key and record
\* for record, whatever the hash seeds of the two processes.
C9_Deterministic ==
    run = "second" /\ pc \in {"done", "failed"} =>
        /\ prev.known
        /\ error = prev.error
        /\ written = prev.written

C9_Witness ==
    /\ run = "second"
    /\ pc = "done"
    /\ prev.hashSeed # hashSeed
    /\ Len(written.content) >= 2
    /\ \E k \in 1..Len(written.content) : Len(written.content[k].chromosomes) >= 2
    /\ written.content[1].chromosomes # written.content[2].chromosomes

\* each good answer of the server with the reference parse of its file
SizesParses == {<<Ok(f), RefChromSeq(f)>> : f \in GoodSizesFiles}
CytoParses == {<<Ok(f), RefCytoSeq(f)>> : f \in GoodCytoFiles}

\* C10: the catalog grows in the declared alias order; until a caller mutates it, the
\* entry of each alias holds the parse of its own assembly's two files; a returned catalog
\* has one entry per configured alias; each cytoBand request directly follows the
\* chrom.sizes request of the same assembly, and both were made before an alias of the
\* assembly is in the catalog.
C10_OwnAssembly ==
    /\ Len(result) <= Len(ASSEMBLY_ALIAS)
    /\ nMut = 0 =>
          \A k \in 1..Len(result) :
              /\ result[k].label = ASSEMBLY_ALIAS[k].label
              /\ <<remote[UcscOf(k)].sizes, heap[result[k].chromosomes]>> \in SizesParses
              /\ <<remote[UcscOf(k)].cyto, heap[result[k].cytobands]>> \in CytoParses
    /\ returned.given => returned.catalog = result /\ Len(result) = Len(ASSEMBLY_ALIAS)
    /\ written.exists =>
          [k \in 1..Len(written.content) |-> written.content[k].label]
             = [k \in 1..Len(ASSEMBLY_ALIAS) |-> ASSEMBLY_ALIAS[k].label]
    /\ \A b \in 1..Len(fetchLog) :
          fetchLog[b][1] = "cytoBand" =>
              b > 1 /\ fetchLog[b - 1] = <<"chrom.sizes", fetchLog[b][2]>>
    /\ \A k \in 1..Len(result) :
          Fetched("chrom.sizes", UcscOf(k)) /\ Fetched("cytoBand", UcscOf(k))

C10_Witness ==
    /\ pc = "done"
    /\ nMut = 0
    /\ Interleaved
    /\ Len(written.content) = 3
    /\ written.content[1].chromosomes # written.content[2].chromosomes
    /\ written.content[1].cytobands # written.content[2].cytobands

====
